---- MODULE Spec2Model ----
(***************************************************************************)
(* Model of the repository's programs:                                     *)
(*   src/src/utils.py         parse_pdf                                    *)
(*   src/app.py               parse_document, main, setup_group_chat       *)
(*   src/src/neo4j_client.py  init_query_engine                            *)
(*   src/simple_app.py        run_conversation, main                       *)
(*   src/test.py              the termination predicate                    *)
(*   src/streamlit.py         the web UI's handlers                        *)
(* The external collaborators (partition_pdf, connect_db, init_db, the     *)
(* agents' replies) are nondeterministic: each call raises or returns.     *)
(* Spec covers the ingestion calls, SpecCli app.main, SpecChat the group   *)
(* chats, SpecUi the web UI.                                               *)
(***************************************************************************)
EXTENDS Integers, Sequences, FiniteSets, TLC

VARIABLES
    pc,            \* control point of the running call ("idle" between calls)
    op,            \* the top-level operation in progress
    srcFile,       \* the file at file_path: "missing", "empty" or "data"
    outFile,       \* the file at output_json_path / json_path
    outBefore,     \* outFile as it was when the running call started
    strategy,      \* parse_pdf's strategy argument
    idx,           \* position of parse_pdf's for loop in strategies_to_try
    last_error,    \* parse_pdf's last_error
    attempts,      \* the partition_pdf calls made by the running call, in order
    ppCalled,      \* whether the running call has invoked parse_pdf
    ppResult,      \* how parse_pdf ended
    force_parse,   \* parse_document's force_parse argument
    skip_if_error, \* parse_document's skip_if_error argument
    pdResult,      \* how parse_document ended
    config,        \* init_query_engine's config_list argument
    hasJsonPath,   \* whether init_query_engine got a json_path
    iqResult,      \* how init_query_engine ended
    calls,         \* the connect_db / init_db calls of the running call, in order
    argSkip,       \* app.main: args.skip_pdf_parsing
    argCreateEmpty,\* app.main: args.create_empty_json
    mainOutBefore, \* app.main: outFile as it was when main started
    printed,       \* app.main: the diagnostics printed, in order
    exitStatus,    \* app.main: the status the process ends with ("none" before)
    mainCalls,     \* app.main: the functions main has called, in order
    setupResult,   \* app.main: how setup_agents ended
    agentsN,       \* group chat: the number of agents handed to GroupChat
    method,        \* group chat: speaker_selection_method
    max_round,     \* group chat: max_round
    maxRoundsArg,  \* simple_app: args.max_rounds
    state,         \* group chat: where the manager's loop stands
    round,         \* group chat: messages the running loop has taken up
    speakers,      \* group chat: the speakers the running loop selected
    msgCount,      \* group chat: length of the transcript
    lastMsg,       \* group chat: the latest message
    predicate,     \* group chat: is_termination_msg's result on lastMsg
    outstanding,   \* group chat: participant calls issued and not returned
    followUpsLeft, \* simple_app: test messages still to send
    chatError,     \* group chat: the exception that ended the chat
    initialMessageArg, \* simple_app / app: args.initial_message
    firstMessage,  \* group chat: the message the conversation was started with
    ui,            \* streamlit: st.session_state of each browser session
    store,         \* the Neo4j database NEO4J_HOST / NEO4J_DATABASE name
    envKey,        \* os.environ["OPENAI_API_KEY"]: "unset" or "set"
    cfgKey,        \* the configuration file's first entry has an api_key
    actor,         \* streamlit: the session whose script ran last (0: none)
    runKind,       \* streamlit: what started that script run
    runCalls,      \* streamlit: the calls that run made, in order
    runStatus,     \* streamlit: the st.success / st.error texts it showed
    runCrashed,    \* streamlit: an exception left the script
    upDoc          \* streamlit: the file the upload handler saved

vars == <<pc, op, srcFile, outFile, outBefore, strategy, idx, last_error,
          attempts, ppCalled, ppResult, force_parse, skip_if_error, pdResult,
          config, hasJsonPath, iqResult, calls,
          argSkip, argCreateEmpty, mainOutBefore, printed, exitStatus,
          mainCalls, setupResult,
          agentsN, method, max_round, maxRoundsArg, state, round, speakers,
          msgCount, lastMsg, predicate, outstanding, followUpsLeft, chatError,
          initialMessageArg, firstMessage,
          ui, store, envKey, cfgKey, actor,
          runKind, runCalls, runStatus, runCrashed, upDoc>>

ppVars == <<strategy, idx, last_error, attempts, ppCalled, ppResult>>
pdVars == <<force_parse, skip_if_error, pdResult>>
iqVars == <<config, hasJsonPath, iqResult, calls>>
cliVars == <<argSkip, argCreateEmpty, mainOutBefore, printed, exitStatus,
             mainCalls, setupResult>>
chatVars == <<agentsN, method, max_round, maxRoundsArg, state, round, speakers,
              msgCount, lastMsg, predicate, outstanding, followUpsLeft,
              chatError, initialMessageArg, firstMessage>>
chatArgs == <<initialMessageArg, firstMessage>>
uiVars == <<ui, store, envKey, cfgKey, actor,
            runKind, runCalls, runStatus, runCrashed, upDoc>>
restVars == <<cliVars, chatVars, uiVars>>
ingestVars == <<srcFile, outFile, outBefore, ppVars, pdVars, iqVars>>
nonUiVars == <<op, ingestVars, cliVars, chatVars>>

----------------------------------------------------------------------------
(* Bounds of the model *)

\* longest list partition_pdf returns
MaxElems == 2
\* longest JSON array found at the output path before the program runs
MaxEntries == 2
\* how many times a record may be wrapped by repeated init_query_engine runs
MaxWraps == 2

\* Largest agent list handed to setup_group_chat.
MaxAgents == 3

\* Largest round bound (--max-rounds, or the library's default).
MaxRound == 6

\* Chat inputs per browser session.
MaxChats == 1

----------------------------------------------------------------------------
(* JSON values *)

ABSENT == "<absent>"     \* the key is not in the mapping
NULL   == "<null>"       \* JSON null / Python None
EMPTY  == "<{}>"         \* the empty mapping {}

\* The labels init_query_engine writes.
DefaultLabels == <<"Document">>

\* A JSON array entry.  isMap says whether it is a mapping; text and
\* element_id are its top-level keys; metadata is its "metadata" key: base is
\* the innermost value, and each layer is one
\* {labels, element_id, original_metadata} wrapper around it, innermost first.
Entry(isMap, text, eid, base, layers) ==
    [isMap |-> isMap, text |-> text, element_id |-> eid,
     metadata |-> [base |-> base, layers |-> layers]]

NonMapping == Entry(FALSE, ABSENT, ABSENT, ABSENT, <<>>)

\* What elements_to_json writes for one element: type, element_id, text and
\* metadata are always present, text is a string.
ElementEntry(text) == Entry(TRUE, text, "e1", "m1", <<>>)

\* The lists partition_pdf can return, as the texts of the elements.
Texts == {"", "t1"}
ElementLists == UNION {[1..n -> Texts] : n \in 0..MaxElems}

\* The entries a JSON file at the output path may hold before the program
\* touches it.
RawEntries ==
    { NonMapping,
      Entry(TRUE, ABSENT, ABSENT, ABSENT, <<>>),
      Entry(TRUE, NULL, "e1", ABSENT, <<>>),
      ElementEntry("t1") }

NoFile      == [kind |-> "nofile",  entries |-> <<>>]
InvalidJson == [kind |-> "invalid", entries |-> <<>>]
ScalarJson  == [kind |-> "scalar",  entries |-> <<>>]
ListFile(es) == [kind |-> "list", entries |-> es]

InitialFiles ==
    {NoFile, InvalidJson, ScalarJson}
        \cup {ListFile(es) : es \in UNION {[1..n -> RawEntries] : n \in 0..MaxEntries}}

\* os.path.exists(output_json)
Exists(f) == f.kind # "nofile"

----------------------------------------------------------------------------
(* Errors: the Python exception class, which raise site, and the cause *)

Err(kind, msg, cause) == [kind |-> kind, msg |-> msg, cause |-> cause]
NoErr == Err("none", "none", "none")

\* What partition_pdf may raise.
StrategyErrors == {"tesseract is not installed", "pdf error"}

NoResult == [status |-> "none", elements |-> <<>>, err |-> NoErr]
Returned(elements) == [status |-> "returned", elements |-> elements, err |-> NoErr]
Raised(e) == [status |-> "raised", elements |-> <<>>, err |-> e]

----------------------------------------------------------------------------
(* parse_pdf, src/src/utils.py *)

Strategies == {"hi_res", "fast", "ocr_only", "auto"}

StrategiesToTry(s) == <<s, "fast", "ocr_only", "auto">>

\* The two checks made before any strategy is tried.
PreCheckMutant(src) ==
    IF src = "empty" THEN Err("RuntimeError", "PDF file is empty", "none")
    ELSE NoErr
PreCheck(src) ==
    IF src = "missing" THEN Err("FileNotFoundError", "PDF file not found", "none")
    ELSE IF src = "empty" THEN Err("RuntimeError", "PDF file is empty", "none")
    ELSE NoErr

\* last_error = e
NextLastErrorMutant(prev, e) == IF prev = "none" THEN e ELSE prev
NextLastError(prev, e) == e

\* if current_strategy == strategies_to_try[-1]: break
IsLastStrategy(list, i) == list[i] = list[Len(list)]

\* raise RuntimeError(error_msg) from last_error
ExhaustedError(last) == Err("RuntimeError", "Failed to parse PDF after trying", last)

\* elements_to_json(elements, filename=output_json_path)
ElementsToJson(elements) ==
    ListFile([i \in 1..Len(elements) |-> ElementEntry(elements[i])])

\* Entry of parse_pdf: the file checks.  The two os.makedirs calls that
\* follow them create directories and touch no state of the model.
ParsePdfEnter ==
    /\ pc = "pp_enter"
    /\ ppCalled' = TRUE
    /\ IF PreCheck(srcFile) # NoErr
       THEN /\ ppResult' = Raised(PreCheck(srcFile))
            /\ pc' = "pp_ret"
            /\ UNCHANGED <<idx, last_error>>
       ELSE /\ idx' = 1
            /\ last_error' = "none"
            /\ pc' = "pp_loop"
            /\ UNCHANGED ppResult
    /\ UNCHANGED <<op, srcFile, outFile, outBefore, strategy, attempts>>
    /\ UNCHANGED <<pdVars, iqVars>>
    /\ UNCHANGED restVars

\* One iteration of the for loop whose try body completes: the elements are
\* written and returned.
ParsePdfAttemptOk ==
    /\ pc = "pp_loop"
    /\ idx <= Len(StrategiesToTry(strategy))
    /\ \E elements \in ElementLists :
         /\ attempts' = Append(attempts,
                [strategy |-> StrategiesToTry(strategy)[idx], err |-> "none"])
         /\ outFile' = ElementsToJson(elements)
         /\ ppResult' = Returned(elements)
    /\ pc' = "pp_ret"
    /\ UNCHANGED <<op, srcFile, outBefore, strategy, idx, last_error, ppCalled>>
    /\ UNCHANGED <<pdVars, iqVars>>
    /\ UNCHANGED restVars

\* One iteration of the for loop whose try body raises before the output is
\* written.
ParsePdfAttemptFail ==
    /\ pc = "pp_loop"
    /\ idx <= Len(StrategiesToTry(strategy))
    /\ \E e \in StrategyErrors :
         /\ attempts' = Append(attempts,
                [strategy |-> StrategiesToTry(strategy)[idx], err |-> e])
         /\ last_error' = NextLastError(last_error, e)
    /\ IF IsLastStrategy(StrategiesToTry(strategy), idx)
          \/ idx = Len(StrategiesToTry(strategy))
       THEN pc' = "pp_fail" /\ UNCHANGED idx
       ELSE pc' = "pp_loop" /\ idx' = idx + 1
    /\ UNCHANGED <<op, srcFile, outFile, outBefore, strategy, ppCalled, ppResult>>
    /\ UNCHANGED <<pdVars, iqVars>>
    /\ UNCHANGED restVars

\* After the loop: all strategies failed.
ParsePdfExhausted ==
    /\ pc = "pp_fail"
    /\ ppResult' = Raised(ExhaustedError(last_error))
    /\ pc' = "pp_ret"
    /\ UNCHANGED <<op, srcFile, outFile, outBefore, strategy, idx, last_error,
                   attempts, ppCalled>>
    /\ UNCHANGED <<pdVars, iqVars>>
    /\ UNCHANGED restVars

\* A caller that invokes parse_pdf directly with some strategy.
CallParsePdf ==
    /\ pc = "idle"
    /\ op' = "parse_pdf"
    /\ srcFile' \in {"missing", "empty", "data"}
    /\ strategy' \in Strategies
    /\ outBefore' = outFile
    /\ pc' = "pp_enter"
    /\ UNCHANGED <<outFile, idx, last_error, attempts, ppCalled, ppResult>>
    /\ UNCHANGED <<pdVars, iqVars>>
    /\ UNCHANGED restVars

\* parse_pdf hands its outcome to that caller.
ParsePdfReturn ==
    /\ pc = "pp_ret"
    /\ op = "parse_pdf"
    /\ pc' = "done"
    /\ UNCHANGED <<op, srcFile, outFile, outBefore>>
    /\ UNCHANGED <<ppVars, pdVars, iqVars>>
    /\ UNCHANGED restVars

----------------------------------------------------------------------------
(* parse_document, src/app.py *)

\* Where control goes when parse_document ends: back into main when main
\* called it.
PdDone == IF op = "main" THEN "m_parsed" ELSE "done"

\* if not force_parse and os.path.exists(output_json): return True
SkipParsingMutant(force, out) == FALSE
SkipParsing(force, out) == ~force /\ Exists(out)

\* "tesseract is not installed" in str(e).lower(); the message of the
\* exhausted error embeds str(last_error).
MentionsTesseract(e) == e.cause = "tesseract is not installed"

\* parse_document up to its return or its call of parse_pdf, which passes no
\* strategy (the default "hi_res").  ensure_directory_exists only creates
\* directories.
CallParseDocument ==
    /\ pc = "idle"
    /\ op' = "parse_document"
    /\ srcFile' \in {"missing", "empty", "data"}
    /\ force_parse' \in BOOLEAN
    /\ skip_if_error' \in BOOLEAN
    /\ outBefore' = outFile
    /\ IF SkipParsing(force_parse', outFile)
       THEN /\ pdResult' = [value |-> "True", err |-> NoErr]
            /\ pc' = "done"
            /\ UNCHANGED strategy
       ELSE /\ strategy' = "hi_res"
            /\ pc' = "pp_enter"
            /\ UNCHANGED pdResult
    /\ UNCHANGED <<outFile, idx, last_error, attempts, ppCalled, ppResult>>
    /\ UNCHANGED iqVars
    /\ UNCHANGED restVars

FailedResultMutant(skip, e) == [value |-> "False", err |-> NoErr]

\* The end of every except clause: if not skip_if_error: raise; return False
FailedResult(skip, e) ==
    IF skip THEN [value |-> "False", err |-> NoErr]
    ELSE [value |-> "raised", err |-> e]

\* parse_document after parse_pdf: the return and the except clauses.
ParseDocumentHandle ==
    /\ pc = "pp_ret"
    /\ op \in {"parse_document", "main"}
    /\ LET e == ppResult.err
           failed == FailedResult(skip_if_error, e)
       IN  IF ppResult.status = "returned"
           THEN /\ pdResult' = [value |-> "True", err |-> NoErr]
                /\ UNCHANGED outFile
           ELSE IF e.kind = "FileNotFoundError"
           THEN /\ pdResult' = failed
                /\ UNCHANGED outFile
           ELSE IF MentionsTesseract(e)
           THEN /\ outFile' = IF Exists(outFile) THEN outFile ELSE ListFile(<<>>)
                /\ pdResult' = failed
           ELSE /\ pdResult' = failed
                /\ UNCHANGED outFile
    /\ pc' = PdDone
    /\ UNCHANGED <<op, srcFile, outBefore, force_parse, skip_if_error>>
    /\ UNCHANGED <<ppVars, iqVars>>
    /\ UNCHANGED restVars

----------------------------------------------------------------------------
(* init_query_engine, src/src/neo4j_client.py *)

Configs == {"none", "no_model", "ok"}

\* Where control goes when init_query_engine ends: back into main when main
\* called it.
IqDone == IF op = "main" THEN "m_engine" ELSE "done"

\* The transformed entry built from one mapping entry.  entry.get('text', '')
\* gives '' only when the key is absent; entry.get('element_id') gives None
\* when it is absent; entry.get('metadata', {}) gives {} when it is absent.
TextOf(entry) == IF entry.text = ABSENT THEN "" ELSE entry.text

Transform(entry) ==
    Entry(TRUE,
          TextOf(entry),
          ABSENT,
          IF entry.metadata.layers = <<>> /\ entry.metadata.base = ABSENT
              THEN EMPTY ELSE entry.metadata.base,
          Append(entry.metadata.layers,
                 [labels |-> DefaultLabels,
                  element_id |-> IF entry.element_id = ABSENT
                                 THEN NULL ELSE entry.element_id]))

\* The for loop: entries that are not mappings are skipped.
TransformAll(entries) ==
    LET kept == SelectSeq(entries, LAMBDA e : e.isMap)
    IN  [i \in 1..Len(kept) |-> Transform(kept[i])]

\* except Exception as e: raise RuntimeError("Neo4j database initialization
\* error: ...") from e
InitError(cause) ==
    Err("RuntimeError", "Neo4j database initialization error", cause)

\* How many wrappers the most wrapped entry of a file has.
Wraps(f) ==
    LET ns == {Len(f.entries[i].metadata.layers) : i \in 1..Len(f.entries)}
    IN  IF ns = {} THEN 0 ELSE CHOOSE n \in ns : \A m \in ns : m <= n

CallInitQueryEngine ==
    /\ pc = "idle"
    /\ Wraps(outFile) < MaxWraps
    /\ op' = "init_query_engine"
    /\ config' \in Configs
    /\ hasJsonPath' \in BOOLEAN
    /\ outBefore' = outFile
    /\ pc' = "iq_config"
    /\ UNCHANGED <<srcFile, outFile, iqResult, calls>>
    /\ UNCHANGED <<ppVars, pdVars>>
    /\ UNCHANGED restVars

\* The configuration checks and the construction of the llm, the embedding
\* and the engine, each of which may raise.
IqConfig ==
    /\ pc = "iq_config"
    /\ \/ /\ config = "none"
          /\ iqResult' = Raised(Err("ValueError", "LLM configuration is required", "none"))
          /\ pc' = IqDone
       \/ /\ config = "no_model"
          /\ iqResult' = Raised(Err("RuntimeError", "LLM initialization error",
                                    "ValueError: Invalid LLM configuration"))
          /\ pc' = IqDone
       \/ /\ config = "ok"
          /\ iqResult' = Raised(Err("Exception", "engine construction", "none"))
          /\ pc' = IqDone
       \/ /\ config = "ok"
          /\ pc' = "iq_connect"
          /\ UNCHANGED iqResult
    /\ UNCHANGED <<op, srcFile, outFile, outBefore, config, hasJsonPath, calls>>
    /\ UNCHANGED <<ppVars, pdVars>>
    /\ UNCHANGED restVars

\* except Exception as e: raise RuntimeError("Neo4j connection error: ...")
\* from e -- where the call goes after connect_db raised, and with what.
AfterConnectFailureMutant == [pc |-> "iq_connect", result |-> NoResult]
AfterConnectFailure ==
    [pc |-> IqDone,
     result |-> Raised(Err("RuntimeError", "Neo4j connection error", "connect_db"))]

\* engine.connect_db(), then the early return when no json_path was given.
IqConnect ==
    /\ pc = "iq_connect"
    /\ \/ /\ calls' = Append(calls, [fn |-> "connect_db", ok |-> FALSE])
          /\ iqResult' = AfterConnectFailure.result
          /\ pc' = AfterConnectFailure.pc
       \/ /\ calls' = Append(calls, [fn |-> "connect_db", ok |-> TRUE])
          /\ IF hasJsonPath
             THEN pc' = "iq_load" /\ UNCHANGED iqResult
             ELSE pc' = IqDone /\ iqResult' = Returned(<<>>)
    /\ UNCHANGED <<op, srcFile, outFile, outBefore, config, hasJsonPath>>
    /\ UNCHANGED <<ppVars, pdVars>>
    /\ UNCHANGED restVars

\* Load, validate, transform and save the document.
IqLoadTransform ==
    /\ pc = "iq_load"
    /\ IF outFile.kind = "nofile"
       THEN /\ iqResult' = Raised(Err("FileNotFoundError", "Document not found", "none"))
            /\ pc' = IqDone
            /\ UNCHANGED outFile
       ELSE IF outFile.kind = "invalid"
       THEN /\ iqResult' = Raised(Err("ValueError", "Invalid JSON in document",
                                      "JSONDecodeError"))
            /\ pc' = IqDone
            /\ UNCHANGED outFile
       ELSE IF outFile.kind # "list" \/ outFile.entries = <<>>
       THEN /\ iqResult' = Raised(InitError("ValueError: empty or not a valid JSON array"))
            /\ pc' = IqDone
            /\ UNCHANGED outFile
       ELSE IF TransformAll(outFile.entries) = <<>>
       THEN /\ iqResult' = Raised(InitError("ValueError: No valid entries"))
            /\ pc' = IqDone
            /\ UNCHANGED outFile
       ELSE /\ outFile' = ListFile(TransformAll(outFile.entries))
            /\ pc' = "iq_initdb"
            /\ UNCHANGED iqResult
    /\ UNCHANGED <<op, srcFile, outBefore, config, hasJsonPath, calls>>
    /\ UNCHANGED <<ppVars, pdVars>>
    /\ UNCHANGED restVars

\* engine.init_db(input_doc=doc)
IqInitDb ==
    /\ pc = "iq_initdb"
    /\ \/ /\ calls' = Append(calls, [fn |-> "init_db", ok |-> TRUE])
          /\ iqResult' = Returned(<<>>)
       \/ /\ calls' = Append(calls, [fn |-> "init_db", ok |-> FALSE])
          /\ iqResult' = Raised(InitError("init_db"))
    /\ pc' = IqDone
    /\ UNCHANGED <<op, srcFile, outFile, outBefore, config, hasJsonPath>>
    /\ UNCHANGED <<ppVars, pdVars>>
    /\ UNCHANGED restVars

----------------------------------------------------------------------------
(* main, src/app.py *)

\* What main does on every way out: it returns None (also from its except
\* clause), so the process ends with status 0.
MainEnds(lines) ==
    /\ printed' = printed \o lines
    /\ exitStatus' = "0"
    /\ pc' = "done"

\* The command line, load_config, and the --create-empty-json placeholder.
CallMain ==
    /\ pc = "idle"
    /\ Wraps(outFile) < MaxWraps
    /\ op' = "main"
    /\ srcFile' \in {"missing", "empty", "data"}
    /\ force_parse' \in BOOLEAN
    /\ argSkip' \in BOOLEAN
    /\ argCreateEmpty' \in BOOLEAN
    /\ skip_if_error' = TRUE
    /\ mainOutBefore' = outFile
    /\ outBefore' = outFile
    /\ \/ /\ MainEnds(<<"Error: Error loading configuration">>)
          /\ UNCHANGED outFile
       \/ /\ outFile' = IF argCreateEmpty' /\ ~Exists(outFile)
                        THEN ListFile(<<>>) ELSE outFile
          /\ pc' = "m_branch"
          /\ UNCHANGED <<printed, exitStatus>>
    /\ UNCHANGED <<mainCalls, setupResult>>
    /\ UNCHANGED <<ppVars, pdResult, iqVars, chatVars, uiVars>>

\* if not args.skip_pdf_parsing and not args.create_empty_json: the call of
\* parse_document(pdf_path, output_json, image_dir, args.parse_pdf);
\* elif args.skip_pdf_parsing: the placeholder.
MainBranch ==
    /\ pc = "m_branch"
    /\ IF ~argSkip /\ ~argCreateEmpty
       THEN IF SkipParsing(force_parse, outFile)
            THEN /\ pdResult' = [value |-> "True", err |-> NoErr]
                 /\ pc' = "m_parsed"
                 /\ mainCalls' = Append(mainCalls, "parse_document")
                 /\ UNCHANGED <<strategy, outFile>>
            ELSE /\ strategy' = "hi_res"
                 /\ pc' = "pp_enter"
                 /\ mainCalls' = Append(mainCalls, "parse_document")
                 /\ UNCHANGED <<pdResult, outFile>>
       ELSE /\ outFile' = IF argSkip /\ ~Exists(outFile)
                          THEN ListFile(<<>>) ELSE outFile
            /\ pc' = "m_check"
            /\ UNCHANGED <<strategy, pdResult, mainCalls>>
    /\ UNCHANGED <<op, srcFile, outBefore, idx, last_error, attempts, ppCalled,
                   ppResult, force_parse, skip_if_error>>
    /\ UNCHANGED <<argSkip, argCreateEmpty, mainOutBefore, printed, exitStatus,
                   setupResult>>
    /\ UNCHANGED <<iqVars, chatVars, uiVars>>

\* if not parsing_succeeded and not os.path.exists(args.output_json)
MainAfterParse ==
    /\ pc = "m_parsed"
    /\ IF pdResult.value # "True" /\ ~Exists(outFile)
       THEN MainEnds(<<"Error: PDF parsing failed">>)
       ELSE pc' = "m_check" /\ UNCHANGED <<printed, exitStatus>>
    /\ UNCHANGED <<op, srcFile, outFile, outBefore>>
    /\ UNCHANGED <<ppVars, pdVars, iqVars, argSkip, argCreateEmpty, mainOutBefore>>
    /\ UNCHANGED <<mainCalls, setupResult, chatVars, uiVars>>

\* The check that parsed data exists, then the call of
\* init_query_engine(config_list, args.output_json); load_config returns a
\* non-empty list whose entries may lack the model key.
MainInitEngine ==
    /\ pc = "m_check"
    /\ IF ~Exists(outFile)
       THEN /\ MainEnds(<<"Error: No parsed data found">>)
            /\ UNCHANGED <<outBefore, config, hasJsonPath, mainCalls>>
       ELSE /\ config' \in {"no_model", "ok"}
            /\ hasJsonPath' = TRUE
            /\ outBefore' = outFile
            /\ pc' = "iq_config"
            /\ mainCalls' = Append(mainCalls, "init_query_engine")
            /\ UNCHANGED <<printed, exitStatus>>
    /\ UNCHANGED <<op, srcFile, outFile, iqResult, calls>>
    /\ UNCHANGED <<ppVars, pdVars, argSkip, argCreateEmpty, mainOutBefore>>
    /\ UNCHANGED <<setupResult, chatVars, uiVars>>

\* The agents setup_agents constructs and binds to a name.
ConstructedAgents ==
    {"user_proxy", "general", "search", "image2table", "final_agent"}

\* The names its return statement puts into the agent list.
AgentList ==
    <<"user_proxy", "general", "search", "rag_agent", "image2table",
      "final_agent">>

\* setup_agents: a constructor may raise; evaluating the list raises
\* NameError at the first name that was never bound; the except clause logs
\* and re-raises.
SetupAgents ==
    LET missing == {i \in 1..Len(AgentList) : AgentList[i] \notin ConstructedAgents}
    IN  {Raised(Err("Exception", "agent construction", "constructor"))} \cup
        (IF missing = {}
         THEN {Returned(AgentList)}
         ELSE {Raised(Err("NameError", "name is not defined",
                          AgentList[CHOOSE i \in missing :
                                       \A j \in missing : i <= j]))})

\* After init_query_engine: its exception reaches main's except clause;
\* otherwise setup_agents runs, and its exception reaches the same clause;
\* otherwise the group chat is set up and initiate_chat called.
MainAfterEngine ==
    /\ pc = "m_engine"
    /\ IF iqResult.status = "raised"
       THEN /\ MainEnds(<<"Error: init_query_engine">>)
            /\ UNCHANGED <<mainCalls, setupResult>>
       ELSE \E r \in SetupAgents :
               /\ setupResult' = r
               /\ IF r.status = "raised"
                  THEN /\ mainCalls' = Append(mainCalls, "setup_agents")
                       /\ MainEnds(<<"Error: setup_agents">>)
                  ELSE /\ mainCalls' = mainCalls \o <<"setup_agents", "initiate_chat">>
                       /\ \/ MainEnds(<<>>)
                          \/ MainEnds(<<"Error: initiate_chat">>)
    /\ UNCHANGED <<op, srcFile, outFile, outBefore>>
    /\ UNCHANGED <<ppVars, pdVars, iqVars, argSkip, argCreateEmpty, mainOutBefore>>
    /\ UNCHANGED <<chatVars, uiVars>>

----------------------------------------------------------------------------
(* Message contents and the termination predicate, src/test.py *)

\* A message as the predicate sees it: the content key may be missing, may
\* hold None, or holds a string (a sequence of characters).
MissingContent == [kind |-> "missing", chars |-> <<>>]
NullContent == [kind |-> "null", chars |-> <<>>]
Text(cs) == [kind |-> "str", chars |-> cs]

Contents ==
    {MissingContent, NullContent, Text(<<>>),
     Text(<<"D", "O", "N", "E", "!">>),
     Text(<<"d", "o", "n", "e", "!">>),
     Text(<<"x", "D", "o", "N", "e", "!", "y">>),
     Text(<<"D", "O", "N", "E">>),
     Text(<<"d", "o", "n", "e", "?", "!">>)}

\* x.get("content", "")
GetContent(x) == IF x.kind = "missing" THEN Text(<<>>) ELSE x

\* v or "": None and the empty string are falsy
OrEmpty(v) == IF v.kind = "null" \/ v.chars = <<>> THEN Text(<<>>) ELSE v

\* str.upper(), over the letters the contents use
UpperChar(c) ==
    CASE c = "d" -> "D"
      [] c = "o" -> "O"
      [] c = "n" -> "N"
      [] c = "e" -> "E"
      [] c = "x" -> "X"
      [] c = "y" -> "Y"
      [] OTHER -> c

Upper(cs) == [i \in 1..Len(cs) |-> UpperChar(cs[i])]

\* needle in hay
Contains(needle, hay) ==
    \E i \in 0..(Len(hay) - Len(needle)) :
        SubSeq(hay, i + 1, i + Len(needle)) = needle

IsTerminationMsgMutant(x) ==
    IF Contains(<<"D", "O", "N", "E", "!">>, OrEmpty(GetContent(x)).chars)
    THEN "True" ELSE "False"

\* lambda x: "DONE!" in (x.get("content", "") or "").upper()
IsTerminationMsg(x) ==
    IF Contains(<<"D", "O", "N", "E", "!">>, Upper(OrEmpty(GetContent(x)).chars))
    THEN "True" ELSE "False"

----------------------------------------------------------------------------
(* The group chats the programs set up *)

Scripts == {"app", "main", "streamlit", "simple", "simple_auto", "test"}

\* The agent list handed to GroupChat: setup_group_chat takes it as an
\* argument; the other programs build it in place.
GroupChatAgents(script, n) ==
    CASE script = "app" -> n
      [] script = "main" -> 6
      [] script = "test" -> 3
      [] OTHER -> 4

SpeakerSelectionMethodMutant(script) == "auto"

\* speaker_selection_method; simple_app passes none and gets the library's
\* "auto".
SpeakerSelectionMethod(script) ==
    IF script \in {"app", "main", "streamlit"} THEN "round_robin" ELSE "auto"

GroupChatMaxRoundMutant(script, arg, lib) ==
    CASE script = "streamlit" -> 5
      [] script = "simple_auto" -> 3
      [] script = "simple" -> arg + 1
      [] OTHER -> lib

\* max_round; where the program passes none, the library's default lib.
GroupChatMaxRound(script, arg, lib) ==
    CASE script = "streamlit" -> 4
      [] script = "simple_auto" -> 3
      [] script = "simple" -> arg
      [] OTHER -> lib

\* Only test.py hands the manager an is_termination_msg.
HasTerminationPredicate(script) == script = "test"

\* run_conversation sends test_messages[1:] after initiate_chat.
FollowUps(script) == IF script = "simple_auto" THEN 2 ELSE 0

\* The message handed to initiate_chat / run: the command-line value, the
\* first of run_conversation's test_messages, or the script's literal.
FirstMessage(script, arg) ==
    CASE script \in {"simple", "app"} -> arg
      [] script = "simple_auto" -> "test_messages[0]"
      [] script = "streamlit" -> "prompt"
      [] OTHER -> "literal"

\* The contents a message can have: only test.py's predicate reads them.
MessageContents(script) ==
    IF script = "test" THEN Contents ELSE {Text(<<"o", "k">>)}

\* The programs start the conversation: initiate_chat / run with the first
\* message, sent by the first agent of the list.
ChatStart ==
    /\ pc = "idle"
    /\ \E script \in Scripts, n \in 2..MaxAgents, k \in 1..MaxRound,
          lib \in 1..MaxRound :
          /\ op' = script
          /\ agentsN' = GroupChatAgents(script, n)
          /\ method' = SpeakerSelectionMethod(script)
          /\ maxRoundsArg' = IF script \in {"simple", "simple_auto"} THEN k ELSE 0
          /\ max_round' = GroupChatMaxRound(script, k, lib)
          /\ followUpsLeft' = FollowUps(script)
          /\ lastMsg' \in MessageContents(script)
          /\ \E a \in {"default", "custom"} :
                /\ initialMessageArg' =
                      IF script \in {"simple", "simple_auto", "app"} THEN a ELSE "none"
                /\ firstMessage' = FirstMessage(script, a)
    /\ state' = "AwaitingSpeaker"
    /\ round' = 1
    /\ speakers' = <<>>
    /\ msgCount' = 1
    /\ predicate' = "none"
    /\ outstanding' = 0
    /\ chatError' = "none"
    /\ pc' = "c_check"
    /\ UNCHANGED <<ingestVars, cliVars, uiVars>>

\* The manager's loop takes up the latest message: it ends the chat when the
\* termination predicate holds of it (or raises) or the round bound is
\* reached.  The library's default predicate compares the content with a
\* fixed word; its result is left open.
ChatCheck ==
    /\ pc = "c_check"
    /\ \E res \in (IF HasTerminationPredicate(op)
                   THEN {IsTerminationMsg(lastMsg)} ELSE {"True", "False"}) :
          /\ predicate' = res
          /\ chatError' = IF res \in {"True", "False"} THEN chatError ELSE res
          /\ IF res # "False" \/ round = max_round
             THEN state' = "Terminated" /\ pc' = "c_ended"
             ELSE state' = "AwaitingSpeaker" /\ pc' = "c_select"
    /\ UNCHANGED <<op, agentsN, method, max_round, maxRoundsArg, round, speakers,
                   msgCount, lastMsg, outstanding, followUpsLeft>>
    /\ UNCHANGED <<chatArgs, ingestVars, cliVars, uiVars>>

\* The speaker whose message the loop took up last.
LastSpeaker == IF speakers = <<>> THEN 1 ELSE speakers[Len(speakers)]

\* round_robin: the agent after last in the list, cyclically.
NextAgent(last, n) == (last % n) + 1

\* auto: the manager's model picks any agent of the list.
SelectSpeaker(m, last, n) ==
    IF m = "round_robin" THEN {NextAgent(last, n)} ELSE 1..n

ChatSelect ==
    /\ pc = "c_select"
    /\ \E s \in SelectSpeaker(method, LastSpeaker, agentsN) :
          speakers' = Append(speakers, s)
    /\ state' = "Dispatching"
    /\ pc' = "c_dispatch"
    /\ UNCHANGED <<op, agentsN, method, max_round, maxRoundsArg, round,
                   msgCount, lastMsg, predicate, outstanding, followUpsLeft,
                   chatError>>
    /\ UNCHANGED <<chatArgs, ingestVars, cliVars, uiVars>>

\* speaker.generate_reply(sender=manager) is called.
ChatDispatch ==
    /\ pc = "c_dispatch"
    /\ outstanding' = outstanding + 1
    /\ state' = "AwaitingReply"
    /\ pc' = "c_reply"
    /\ UNCHANGED <<op, agentsN, method, max_round, maxRoundsArg, round, speakers,
                   msgCount, lastMsg, predicate, followUpsLeft, chatError>>
    /\ UNCHANGED <<chatArgs, ingestVars, cliVars, uiVars>>

\* The call returns a reply, which is appended; or returns None, which ends
\* the chat; or raises, which ends the chat with the exception.
ChatReply ==
    /\ pc = "c_reply"
    /\ outstanding' = outstanding - 1
    /\ \/ /\ lastMsg' \in MessageContents(op)
          /\ msgCount' = msgCount + 1
          /\ round' = round + 1
          /\ predicate' = "none"
          /\ state' = "AwaitingSpeaker"
          /\ pc' = "c_check"
          /\ UNCHANGED chatError
       \/ /\ state' = "Terminated"
          /\ pc' = "c_ended"
          /\ UNCHANGED <<lastMsg, msgCount, round, predicate, chatError>>
       \/ /\ state' = "Terminated"
          /\ pc' = "c_ended"
          /\ chatError' = "Exception"
          /\ UNCHANGED <<lastMsg, msgCount, round, predicate>>
    /\ UNCHANGED <<op, agentsN, method, max_round, maxRoundsArg, speakers,
                   followUpsLeft>>
    /\ UNCHANGED <<chatArgs, ingestVars, cliVars, uiVars>>

CallerMaySendMutant(p) == p \in {"c_ended", "c_reply"}

\* initiate_chat and send return when the chat they started has ended; the
\* next statement of the caller runs after that.
CallerMaySend(p) == p = "c_ended"

\* for msg in test_messages[1:]: user_proxy.send(msg, manager).  The manager
\* takes the message and replies by running its loop again.
FollowUpSend ==
    /\ CallerMaySend(pc)
    /\ followUpsLeft > 0
    /\ chatError = "none"
    /\ followUpsLeft' = followUpsLeft - 1
    /\ lastMsg' \in MessageContents(op)
    /\ msgCount' = msgCount + 1
    /\ round' = 1
    /\ speakers' = <<>>
    /\ predicate' = "none"
    /\ state' = "AwaitingSpeaker"
    /\ pc' = "c_check"
    /\ UNCHANGED <<op, agentsN, method, max_round, maxRoundsArg, outstanding,
                   chatError>>
    /\ UNCHANGED <<chatArgs, ingestVars, cliVars, uiVars>>

\* The caller has nothing more to send, or its except clause took over.
ChatReturn ==
    /\ pc = "c_ended"
    /\ followUpsLeft = 0 \/ chatError # "none"
    /\ pc' = "done"
    /\ UNCHANGED <<op, chatVars, ingestVars, cliVars, uiVars>>

\* No group chat exists.
ChatInit ==
    /\ agentsN = 0
    /\ method = "none"
    /\ max_round = 0
    /\ maxRoundsArg = 0
    /\ state = "None"
    /\ round = 0
    /\ speakers = <<>>
    /\ msgCount = 0
    /\ lastMsg = MissingContent
    /\ predicate = "none"
    /\ outstanding = 0
    /\ followUpsLeft = 0
    /\ chatError = "none"
    /\ initialMessageArg = "none"
    /\ firstMessage = "none"

----------------------------------------------------------------------------
(* The web UI, src/streamlit.py *)

\* Two browsers are open on the one server process.
Sessions == {1, 2}

Docs == {"d1", "d2"}

\* The session's output_json in its own temporary directory: absent, the
\* written form of an empty element list, or a document's elements as
\* parse_pdf wrote them ("raw") or as init_query_engine rewrote them.
NoParsed == [doc |-> "none", form |-> "none"]
Parsed(d, f) == [doc |-> d, form |-> f]

\* st.session_state before the script has run in the session.
NewSession ==
    [initialized |-> FALSE, messages |-> <<>>, file |-> NoParsed,
     engine |-> FALSE, agents |-> FALSE, hasProxy |-> FALSE]

\* load_config and init_query_engine put the api_key into the process
\* environment when it is not set there.
EnvAfterConfig(env, hasKey) == IF env = "unset" /\ hasKey THEN "set" ELSE env

\* init_db(input_doc) writes the document into the one database every
\* engine is constructed on; whether it first clears the database is the
\* library's.
InitDbResults(st, d) == {{d}, st \cup {d}}

\* A call the running script made: from refresh_rag_after_upload, from the
\* upload handler or from the script's top level, and whether it returned.
RunCall(f, where, returned) == [fn |-> f, site |-> where, ok |-> returned]

\* A script run begins in session s: what the previous run showed is gone.
BeginRun(s, kind) ==
    /\ actor' = s
    /\ runKind' = kind
    /\ runCrashed' = FALSE

\* What setup_agents shows before it re-raises.
SetupFailed == "error: Failed to initialize agents"

\* First run of the script in a session: load_config, whose exception
\* nothing catches, and the initial session state.
UiSessionStart(s) ==
    /\ pc = "idle"
    /\ ~ui[s].initialized
    /\ actor' = s
    /\ runKind' = "start"
    /\ runCalls' = <<>>
    /\ runStatus' = <<>>
    /\ \/ /\ runCrashed' = TRUE
          /\ pc' = "idle"
          /\ UNCHANGED <<ui, envKey>>
       \/ /\ runCrashed' = FALSE
          /\ ui' = [ui EXCEPT ![s] = [NewSession EXCEPT !.initialized = TRUE]]
          /\ envKey' = EnvAfterConfig(envKey, cfgKey)
          /\ pc' = "ui_tail"
    /\ UNCHANGED <<store, cfgKey, upDoc, nonUiVars>>

\* "Add to Knowledge Base" in an initialized session: the uploaded file is
\* saved and refresh_rag_after_upload called.
UiUploadStart(s) ==
    /\ pc = "idle"
    /\ ui[s].initialized
    /\ BeginRun(s, "upload")
    /\ runCalls' = <<>>
    /\ runStatus' = <<>>
    /\ upDoc' \in Docs
    /\ pc' = "ui_parse"
    /\ UNCHANGED <<ui, store, envKey, cfgKey, nonUiVars>>

\* refresh_rag_after_upload: parse_pdf raises on every strategy, or writes
\* the elements it got, which may be none.
UiParse ==
    /\ pc = "ui_parse"
    /\ \/ /\ runCalls' = Append(runCalls, RunCall("parse_pdf", "refresh", FALSE))
          /\ runStatus' = Append(runStatus, "error: Failed to update knowledge base")
          /\ pc' = "ui_success"
          /\ UNCHANGED ui
       \/ /\ runCalls' = Append(runCalls, RunCall("parse_pdf", "refresh", TRUE))
          /\ \E f \in {Parsed("none", "empty"), Parsed(upDoc, "raw")} :
                ui' = [ui EXCEPT ![actor].file = f]
          /\ pc' = "ui_init"
          /\ UNCHANGED runStatus
    /\ UNCHANGED <<store, envKey, cfgKey, actor, runKind, runCrashed, upDoc,
                   nonUiVars>>

\* refresh_rag_after_upload: init_query_engine raises for the configuration,
\* for the connection, for an empty document, or from init_db after the file
\* was rewritten; or it returns and the engine is stored.
UiInitEngine ==
    /\ pc = "ui_init"
    /\ \E iq \in {"llm_error", "connect_error", "init_error", "ok"} :
          LET valid == ui[actor].file.form = "raw"
              loads == iq \in {"init_error", "ok"}
              ok == loads /\ valid /\ iq = "ok"
          IN  /\ runCalls' = Append(runCalls, RunCall("init_query_engine", "refresh", ok))
              /\ envKey' = IF iq # "llm_error"
                           THEN EnvAfterConfig(envKey, cfgKey) ELSE envKey
              /\ ui' = [ui EXCEPT ![actor].file =
                                      IF loads /\ valid
                                      THEN Parsed(upDoc, "wrapped") ELSE @,
                                  ![actor].engine = IF ok THEN TRUE ELSE @]
              /\ IF loads /\ valid
                 THEN \/ store' \in InitDbResults(store, upDoc)
                      \/ iq = "init_error" /\ store' = store
                 ELSE store' = store
              /\ IF ok
                 THEN pc' = "ui_setup" /\ UNCHANGED runStatus
                 ELSE /\ pc' = "ui_success"
                      /\ runStatus' =
                            Append(runStatus, "error: Failed to update knowledge base")
    /\ UNCHANGED <<cfgKey, actor, runKind, runCrashed, upDoc, nonUiVars>>

\* refresh_rag_after_upload: setup_agents, then its st.success; an exception
\* of setup_agents is shown by it and by refresh_rag_after_upload.
UiRefreshSetup ==
    /\ pc = "ui_setup"
    /\ \/ /\ runCalls' = Append(runCalls, RunCall("setup_agents", "refresh", TRUE))
          /\ ui' = [ui EXCEPT ![actor].agents = TRUE]
          /\ runStatus' =
                Append(runStatus, "success: PDF parsed and knowledge base updated.")
       \/ /\ runCalls' = Append(runCalls, RunCall("setup_agents", "refresh", FALSE))
          /\ runStatus' = runStatus \o
                <<SetupFailed, "error: Failed to update knowledge base">>
          /\ UNCHANGED ui
    /\ pc' = "ui_success"
    /\ UNCHANGED <<store, envKey, cfgKey, actor, runKind, runCrashed, upDoc,
                   nonUiVars>>

\* The upload handler after refresh_rag_after_upload returned, which it
\* always does: st.success, then setup_agents again, whose exception the
\* handler shows.
UiHandlerSetup ==
    /\ pc = "ui_success"
    /\ \/ /\ runCalls' = Append(runCalls, RunCall("setup_agents", "handler", TRUE))
          /\ ui' = [ui EXCEPT ![actor].agents = TRUE, ![actor].hasProxy = TRUE]
          /\ runStatus' =
                Append(runStatus, "success: Document processed successfully!")
       \/ /\ runCalls' = Append(runCalls, RunCall("setup_agents", "handler", FALSE))
          /\ runStatus' = runStatus \o
                <<"success: Document processed successfully!", SetupFailed,
                  "error: Error processing document">>
          /\ UNCHANGED ui
    /\ pc' = "ui_tail"
    /\ UNCHANGED <<store, envKey, cfgKey, actor, runKind, runCrashed, upDoc,
                   nonUiVars>>

\* if 'user_proxy' not in st.session_state: setup_agents(), outside any
\* try: its exception leaves the script.
UiTail ==
    /\ pc = "ui_tail"
    /\ IF ui[actor].hasProxy
       THEN UNCHANGED <<ui, runCalls, runStatus, runCrashed>>
       ELSE \/ /\ runCalls' = Append(runCalls, RunCall("setup_agents", "script", TRUE))
               /\ ui' = [ui EXCEPT ![actor].agents = TRUE,
                                   ![actor].hasProxy = TRUE]
               /\ UNCHANGED <<runStatus, runCrashed>>
            \/ /\ runCalls' = Append(runCalls, RunCall("setup_agents", "script", FALSE))
               /\ runStatus' = Append(runStatus, SetupFailed)
               /\ runCrashed' = TRUE
               /\ UNCHANGED ui
    /\ pc' = "idle"
    /\ UNCHANGED <<store, envKey, cfgKey, actor, runKind, upDoc, nonUiVars>>

\* A chat input, which is rendered only when the script got past the
\* setup above: the prompt is appended and the agents run.  The reply's
\* content is text, blank, or None; or the run raises.  A blank reply is
\* not appended; None fails at .strip(), which the outer except clause
\* shows and appends.
UiChat(s) ==
    /\ pc = "idle"
    /\ ui[s].hasProxy
    /\ Len(SelectSeq(ui[s].messages, LAMBDA m : m = "user")) < MaxChats
    /\ BeginRun(s, "chat")
    /\ \E reply \in {"text", "blank", "none", "error"} :
          /\ ui' = [ui EXCEPT ![s].messages =
                                  IF reply = "blank" THEN Append(@, "user")
                                  ELSE Append(Append(@, "user"), "assistant")]
          /\ runCalls' = <<RunCall("run", "chat", reply # "error")>>
          /\ runStatus' = IF reply = "none"
                          THEN <<"error: Sorry, I encountered an error">>
                          ELSE <<>>
    /\ UNCHANGED <<store, envKey, cfgKey, upDoc, pc, nonUiVars>>

----------------------------------------------------------------------------
(* Between calls *)

\* The finished call's locals go away.
Finish ==
    /\ pc = "done"
    /\ pc' = "idle"
    /\ op' = "none"
    /\ srcFile' = "data"
    /\ outBefore' = NoFile
    /\ strategy' = "hi_res"
    /\ idx' = 0
    /\ last_error' = "none"
    /\ attempts' = <<>>
    /\ ppCalled' = FALSE
    /\ ppResult' = NoResult
    /\ force_parse' = FALSE
    /\ skip_if_error' = TRUE
    /\ pdResult' = [value |-> "none", err |-> NoErr]
    /\ config' = "ok"
    /\ hasJsonPath' = TRUE
    /\ iqResult' = NoResult
    /\ calls' = <<>>
    /\ argSkip' = FALSE
    /\ argCreateEmpty' = FALSE
    /\ mainOutBefore' = NoFile
    /\ printed' = <<>>
    /\ exitStatus' = "none"
    /\ mainCalls' = <<>>
    /\ setupResult' = NoResult
    /\ agentsN' = 0
    /\ method' = "none"
    /\ max_round' = 0
    /\ maxRoundsArg' = 0
    /\ state' = "None"
    /\ round' = 0
    /\ speakers' = <<>>
    /\ msgCount' = 0
    /\ lastMsg' = MissingContent
    /\ predicate' = "none"
    /\ outstanding' = 0
    /\ followUpsLeft' = 0
    /\ chatError' = "none"
    /\ initialMessageArg' = "none"
    /\ firstMessage' = "none"
    /\ UNCHANGED <<outFile, uiVars>>

\* No call is running and nothing has run.
InitLocals ==
    /\ pc = "idle"
    /\ op = "none"
    /\ srcFile = "data"
    /\ outBefore = NoFile
    /\ strategy = "hi_res"
    /\ idx = 0
    /\ last_error = "none"
    /\ attempts = <<>>
    /\ ppCalled = FALSE
    /\ ppResult = NoResult
    /\ force_parse = FALSE
    /\ skip_if_error = TRUE
    /\ pdResult = [value |-> "none", err |-> NoErr]
    /\ config = "ok"
    /\ hasJsonPath = TRUE
    /\ iqResult = NoResult
    /\ calls = <<>>
    /\ argSkip = FALSE
    /\ argCreateEmpty = FALSE
    /\ mainOutBefore = NoFile
    /\ printed = <<>>
    /\ exitStatus = "none"
    /\ mainCalls = <<>>
    /\ setupResult = NoResult
    /\ ChatInit
    /\ ui = [s \in Sessions |-> NewSession]
    /\ store = {}
    /\ actor = 0
    /\ runKind = "none"
    /\ runCalls = <<>>
    /\ runStatus = <<>>
    /\ runCrashed = FALSE
    /\ upDoc = "none"

Init ==
    /\ InitLocals
    /\ outFile \in InitialFiles
    /\ envKey = "unset"
    /\ cfgKey = TRUE

Next ==
    \/ CallParsePdf
    \/ ParsePdfEnter
    \/ ParsePdfAttemptOk
    \/ ParsePdfAttemptFail
    \/ ParsePdfExhausted
    \/ ParsePdfReturn
    \/ CallParseDocument
    \/ ParseDocumentHandle
    \/ CallInitQueryEngine
    \/ IqConfig
    \/ IqConnect
    \/ IqLoadTransform
    \/ IqInitDb
    \/ Finish

Spec == Init /\ [][Next]_vars

\* The command-line program: main and what it calls.
NextCli ==
    \/ CallMain
    \/ MainBranch
    \/ ParsePdfEnter
    \/ ParsePdfAttemptOk
    \/ ParsePdfAttemptFail
    \/ ParsePdfExhausted
    \/ ParseDocumentHandle
    \/ MainAfterParse
    \/ MainInitEngine
    \/ IqConfig
    \/ IqConnect
    \/ IqLoadTransform
    \/ IqInitDb
    \/ MainAfterEngine
    \/ Finish

SpecCli == Init /\ [][NextCli]_vars

\* The conversations: the group chat loop and its callers.
InitChat ==
    /\ InitLocals
    /\ outFile = NoFile
    /\ envKey = "unset"
    /\ cfgKey = TRUE

NextChat ==
    \/ ChatStart
    \/ ChatCheck
    \/ ChatSelect
    \/ ChatDispatch
    \/ ChatReply
    \/ FollowUpSend
    \/ ChatReturn
    \/ Finish

SpecChat == InitChat /\ [][NextChat]_vars

\* The web UI: the sessions' scripts, run one handler at a time.
NextUi ==
    \/ \E s \in Sessions : UiSessionStart(s)
    \/ \E s \in Sessions : UiUploadStart(s)
    \/ UiParse
    \/ UiInitEngine
    \/ UiRefreshSetup
    \/ UiHandlerSetup
    \/ UiTail
    \/ \E s \in Sessions : UiChat(s)

InitUi ==
    /\ InitLocals
    /\ outFile = NoFile
    /\ envKey \in {"unset", "set"}
    /\ cfgKey \in BOOLEAN

SpecUi == InitUi /\ [][NextUi]_vars

----------------------------------------------------------------------------
(* Properties of parse_pdf *)

\* parse_pdf has ended, by a return or by an exception.
ParsePdfEnded == ppResult.status # "none"

IsExhausted(e) == e.msg = "Failed to parse PDF after trying"

\* C1: parse_pdf attempts the strategies one at a time in list order (the
\* caller's strategy, then fast, ocr_only, auto); an attempt that raises is
\* followed by the attempt of the next strategy of the list, and the first
\* attempt that completes ends the call with its elements, no later strategy
\* being attempted.
C1_AttemptsInOrderAdvanceOnFailure ==
    LET list == StrategiesToTry(strategy)
        n == Len(attempts)
    IN  /\ n <= Len(list)
        /\ \A i \in 1..n : attempts[i].strategy = list[i]
        /\ \A i \in 1..n :
             attempts[i].err = "none" =>
                 i = n /\ pc \in {"pp_ret", "done"} /\ ppResult.status = "returned"
        /\ \A i \in 1..n :
             (attempts[i].err # "none" /\ i < Len(list)) =>
                 (n > i \/ (pc = "pp_loop" /\ idx = i + 1))

\* C2: parse_pdf raises its ingestion failure only after every strategy of
\* the list has been attempted and has failed, whatever the strategy argument.
C2_FailureOnlyAfterAllStrategies ==
    (ParsePdfEnded /\ ppResult.status = "raised" /\ IsExhausted(ppResult.err)) =>
        LET list == StrategiesToTry(strategy)
        IN  /\ Len(attempts) = Len(list)
            /\ \A i \in 1..Len(list) :
                 attempts[i].strategy = list[i] /\ attempts[i].err # "none"

\* C3: when every attempt made has failed, parse_pdf raises the exhausted
\* error, and that error carries the error of the last attempt.
C3_ExhaustedCarriesLastError ==
    (ParsePdfEnded /\ attempts # <<>>
        /\ \A i \in 1..Len(attempts) : attempts[i].err # "none") =>
        ppResult = Raised(ExhaustedError(attempts[Len(attempts)].err))

\* C3 witness: the call failed after several attempts whose first and last
\* errors differ.
C3_Witness ==
    /\ ParsePdfEnded
    /\ IsExhausted(ppResult.err)
    /\ Len(attempts) >= 2
    /\ attempts[1].err # attempts[Len(attempts)].err
    /\ ppResult.err.cause = attempts[Len(attempts)].err

\* C4: for an existing, non-empty source parse_pdf either returns a non-empty
\* list or raises the exhausted error; it never returns an empty list.
C4_NeverReturnsEmptyList ==
    (ParsePdfEnded /\ srcFile = "data") =>
        \/ ppResult.status = "returned" /\ ppResult.elements # <<>>
        \/ ppResult.status = "raised" /\ IsExhausted(ppResult.err)

\* C6: with a source path that is no existing file parse_pdf raises
\* FileNotFoundError without attempting any strategy and without touching the
\* output; parse_document receives that error in its FileNotFoundError clause.
C6_MissingSourceNotFound ==
    (ppCalled /\ srcFile = "missing") =>
        /\ attempts = <<>>
        /\ outFile = outBefore
        /\ pc \in {"pp_ret", "done"}
        /\ ppResult = Raised(Err("FileNotFoundError", "PDF file not found", "none"))
        /\ (pc = "done" /\ op = "parse_document") =>
              pdResult = IF skip_if_error
                         THEN [value |-> "False", err |-> NoErr]
                         ELSE [value |-> "raised", err |-> ppResult.err]

\* C6 witness: a finished call whose source was missing.
C6_Witness ==
    /\ pc = "done"
    /\ ppCalled
    /\ srcFile = "missing"
    /\ ppResult.err.kind = "FileNotFoundError"

\* C7: with an existing source of zero length parse_pdf raises an error of a
\* kind distinct from the exhausted error's, and attempts no strategy.
C7_EmptySourceDistinctError ==
    (ParsePdfEnded /\ srcFile = "empty") =>
        /\ ppResult.status = "raised"
        /\ attempts = <<>>
        /\ \A e \in StrategyErrors : ppResult.err.kind # ExhaustedError(e).kind

----------------------------------------------------------------------------
(* Properties of parse_document *)

\* C5: when the output exists and parsing is not forced, parse_document
\* returns True without calling parse_pdf and leaves the output file as it
\* was; this holds on every call.
C5_ExistingOutputIsNoOp ==
    (op = "parse_document" /\ ~force_parse /\ Exists(outBefore)) =>
        /\ pc = "done"
        /\ pdResult = [value |-> "True", err |-> NoErr]
        /\ ~ppCalled
        /\ attempts = <<>>
        /\ outFile = outBefore

\* C5 witness: parse_document was called without force on an existing output.
C5_Witness ==
    /\ op = "parse_document"
    /\ ~force_parse
    /\ Exists(outBefore)
    /\ pdResult.value = "True"

----------------------------------------------------------------------------
(* Properties of init_query_engine's transformation *)

\* The file holds records of the form
\* {text, metadata: {labels, element_id, original_metadata}}.
InIngestedForm(f) ==
    /\ f.kind = "list"
    /\ f.entries # <<>>
    /\ \A i \in 1..Len(f.entries) :
         /\ f.entries[i].isMap
         /\ f.entries[i].text \notin {ABSENT, NULL}
         /\ f.entries[i].metadata.layers # <<>>

\* The outermost metadata wrapper of a record.
Outer(e) == e.metadata.layers[Len(e.metadata.layers)]

\* C8: every record the transformation produces has a non-null text and a
\* metadata mapping with a labels entry, also for entries whose text is null.
C8_RecordsHaveTextAndLabels ==
    pc = "iq_initdb" =>
        \A i \in 1..Len(outFile.entries) :
            /\ outFile.entries[i].text \notin {ABSENT, NULL}
            /\ outFile.entries[i].metadata.layers # <<>>
            /\ Outer(outFile.entries[i]).labels # <<>>

\* C9: entries that are not mappings are dropped without raising, and when no
\* record survives the call fails with an error of a kind distinct from that
\* of a backend initialization failure.
C9_NoValidRecordsDistinctError ==
    /\ pc = "iq_initdb" =>
          Len(outFile.entries)
              = Cardinality({i \in 1..Len(outBefore.entries) : outBefore.entries[i].isMap})
    /\ (op = "init_query_engine" /\ pc = "done" /\ outBefore.kind = "list"
           /\ outBefore.entries # <<>>
           /\ \A i \in 1..Len(outBefore.entries) : ~outBefore.entries[i].isMap
           /\ iqResult.err.cause = "ValueError: No valid entries") =>
          /\ iqResult.status = "raised"
          /\ iqResult.err.kind # InitError("init_db").kind

\* C10: transforming a file that is already in IngestedRecord form leaves each
\* record's labels, element_id and original_metadata unchanged.
C10_TransformKeepsIngestedForm ==
    (pc = "iq_initdb" /\ InIngestedForm(outBefore)) =>
        /\ Len(outFile.entries) = Len(outBefore.entries)
        /\ \A i \in 1..Len(outFile.entries) :
             outFile.entries[i].metadata = outBefore.entries[i].metadata

----------------------------------------------------------------------------
(* Properties of the persisted output and of the store calls *)

\* The file is an array of objects, each with a string text and a metadata
\* object holding labels, element_id and original_metadata.
InPersistedLayout(f) ==
    /\ f.kind = "list"
    /\ \A i \in 1..Len(f.entries) :
         /\ f.entries[i].isMap
         /\ f.entries[i].text \notin {ABSENT, NULL}
         /\ f.entries[i].metadata.layers # <<>>

\* C11: whenever the running call has written the output file (a successful
\* parse, the placeholder written after a tesseract failure, or the
\* transformation), the file is in the persisted layout.
C11_OutputInPersistedLayout ==
    (op # "none" /\ Exists(outFile) /\ outFile # outBefore) =>
        InPersistedLayout(outFile)

CallsOf(fn) == {i \in 1..Len(calls) : calls[i].fn = fn}

\* C12: within one init_query_engine call connect_db and init_db are each
\* called at most once, nothing is called after a failed call, and a failure
\* of either ends the call with an exception caused by it.
C12_StoreCallsNotRetried ==
    /\ Cardinality(CallsOf("connect_db")) <= 1
    /\ Cardinality(CallsOf("init_db")) <= 1
    /\ \A i \in 1..Len(calls) : ~calls[i].ok => i = Len(calls)
    /\ (calls # <<>> /\ ~calls[Len(calls)].ok) =>
          /\ pc = "done"
          /\ iqResult.status = "raised"
          /\ iqResult.err.cause = calls[Len(calls)].fn

\* C12 witness: connect_db succeeded, init_db failed, and the call raised.
C12_Witness ==
    /\ pc = "done"
    /\ Len(calls) = 2
    /\ calls[1] = [fn |-> "connect_db", ok |-> TRUE]
    /\ calls[2] = [fn |-> "init_db", ok |-> FALSE]
    /\ iqResult.status = "raised"

\* C13: a call that fails on the document itself (the file exists, the store
\* is connected, init_db was never called) raises an error distinguishable
\* from the one raised when init_db fails.
C13_ValidationDistinctFromStoreInit ==
    (op = "init_query_engine" /\ pc = "done" /\ iqResult.status = "raised"
        /\ hasJsonPath /\ Exists(outBefore)
        /\ calls = <<[fn |-> "connect_db", ok |-> TRUE]>>) =>
        \/ iqResult.err.kind # InitError("init_db").kind
        \/ iqResult.err.msg # InitError("init_db").msg

----------------------------------------------------------------------------
(* Properties of main *)

MainEnded == op = "main" /\ pc = "done"

Printed(line) == \E i \in 1..Len(printed) : printed[i] = line

\* C14: main ends with status 0 on success; when ingestion was exhausted,
\* no output file existed before the run and parsing was not skipped, it
\* prints a diagnostic and ends with a non-zero status.
C14_ExhaustionExitsNonZero ==
    MainEnded =>
        /\ printed = <<>> => exitStatus = "0"
        /\ (ppResult.status = "raised" /\ IsExhausted(ppResult.err)
               /\ ~Exists(mainOutBefore) /\ ~argSkip) =>
              /\ printed # <<>>
              /\ exitStatus # "0"

----------------------------------------------------------------------------
(* Properties of the group chat *)

\* C15: under round_robin every selected speaker is the agent that follows
\* the previous speaker in the order of the agent list, cyclically, hence
\* never the previous speaker itself; with three agents and the first one
\* starting, the first five selections are 2, 3, 1, 2, 3.
C15_RoundRobinFollowsRegistrationOrder ==
    op \in {"app", "main", "streamlit"} =>
        /\ \A i \in 1..Len(speakers) :
              LET cur == IF i = 1 THEN 1 ELSE speakers[i - 1] IN
              /\ speakers[i] = IF cur = agentsN THEN 1 ELSE cur + 1
              /\ speakers[i] # cur
        /\ (agentsN = 3 /\ Len(speakers) >= 5) =>
              SubSeq(speakers, 1, 5) = <<2, 3, 1, 2, 3>>

C15_Witness == op = "app" /\ agentsN = 3 /\ Len(speakers) = 5

\* The round bound each program configures its group chat with.
ConfiguredRounds ==
    CASE op = "streamlit" -> 4
      [] op = "simple_auto" -> 3
      [] op = "simple" -> maxRoundsArg
      [] OTHER -> max_round

\* C16: the loop's round counter never exceeds the configured bound K, and
\* once the message of round K has been taken up the chat is Terminated,
\* whatever the termination predicate returned.
C16_BoundedRounds ==
    op \in Scripts =>
        /\ round <= ConfiguredRounds
        /\ (round = ConfiguredRounds /\ pc # "c_check") => state = "Terminated"

C16_Witness ==
    /\ op = "simple"
    /\ maxRoundsArg = 3
    /\ round = 3
    /\ predicate = "False"
    /\ state = "Terminated"

\* C17: once the chat is Terminated, a further send is refused: the
\* transcript does not grow and the chat stays Terminated.
C17_TerminatedRejectsSend ==
    [][(state = "Terminated" /\ pc' # "idle") =>
          (msgCount' = msgCount /\ state' = "Terminated")]_vars

\* The characters hold DONE! in some letter case.
HasSentinel(cs) ==
    \E i \in 0..(Len(cs) - 5) :
        /\ cs[i + 1] \in {"D", "d"}
        /\ cs[i + 2] \in {"O", "o"}
        /\ cs[i + 3] \in {"N", "n"}
        /\ cs[i + 4] \in {"E", "e"}
        /\ cs[i + 5] = "!"

\* C18: when the latest message holds DONE! in any letter case, the
\* predicate is true of it and the chat is Terminated with no participant
\* dispatched after it; on a message whose content is missing or None the
\* predicate returns false and does not raise.
C18_SentinelTerminates ==
    (op = "test" /\ pc # "c_check") =>
        /\ (lastMsg.kind = "str" /\ HasSentinel(lastMsg.chars)) =>
              /\ predicate = "True"
              /\ state = "Terminated"
              /\ outstanding = 0
              /\ pc \in {"c_ended", "done"}
        /\ lastMsg.kind \in {"missing", "null"} => predicate = "False"

C18_Witness ==
    /\ op = "test"
    /\ lastMsg = Text(<<"x", "D", "o", "N", "e", "!", "y">>)
    /\ Len(speakers) >= 1
    /\ state = "Terminated"

\* C19: at most one participant call is outstanding, a call is outstanding
\* exactly while its reply is awaited, and no speaker is selected or
\* dispatched while one is.
C19_OneCallOutstanding ==
    /\ outstanding \in {0, 1}
    /\ outstanding = 1 <=> pc = "c_reply"
    /\ pc \in {"c_select", "c_dispatch"} => outstanding = 0

C19_Witness ==
    /\ op = "simple_auto"
    /\ followUpsLeft = 0
    /\ outstanding = 1
    /\ state = "AwaitingReply"

----------------------------------------------------------------------------
(* Properties of the web UI *)

\* What session t reads: its own session state, the database through its
\* query engine when it has one, and the process environment.
View(t) == <<ui[t], IF ui[t].engine THEN store ELSE {}, envKey>>

\* C20: a handler run by one session changes nothing that another running
\* session reads: not its session state, not the database behind its query
\* engine, not the process environment.
C20_NoSharedMutableState ==
    [][\A t \in Sessions :
          (t # actor' /\ ui[t].initialized) => View(t)' = View(t)]_vars

\* main called f.
Called(f) == \E i \in 1..Len(mainCalls) : mainCalls[i] = f

C25_ParseFailureStopsMain ==
    (MainEnded /\ pdResult.value = "False" /\ ~Exists(mainOutBefore)) =>
        /\ Printed("Error: PDF parsing failed")
        /\ ~Called("init_query_engine")
        /\ ~Called("setup_agents")
        /\ ~Called("initiate_chat")

----------------------------------------------------------------------------
(* Further properties of parse_document and init_query_engine *)

\* C24: parse_document returns True exactly when it skipped parsing because
\* the output existed or parse_pdf returned; it returns False exactly when
\* parse_pdf raised and skip_if_error is true; with skip_if_error false the
\* exception of parse_pdf is re-raised.
C24_ParseDocumentResult ==
    (op = "parse_document" /\ pc = "done") =>
        LET skipped == ~force_parse /\ Exists(outBefore)
            succeeded == ppResult.status = "returned"
            failed == ppResult.status = "raised"
        IN  /\ pdResult.value \in {"True", "False", "raised"}
            /\ pdResult.value = "True" <=> (skipped \/ succeeded)
            /\ pdResult.value = "False" <=> (failed /\ skip_if_error)
            /\ pdResult.value = "raised" <=> (failed /\ ~skip_if_error)
            /\ pdResult.value = "raised" => pdResult.err = ppResult.err

C24_Witness ==
    /\ op = "parse_document"
    /\ pc = "done"
    /\ ~skip_if_error
    /\ ppResult.status = "raised"
    /\ pdResult.value = "raised"

\* C26: when init_query_engine raises, the file at json_path holds what it
\* held before the call.
C26_RaiseLeavesFileUnchanged ==
    (op = "init_query_engine" /\ pc = "done" /\ iqResult.status = "raised") =>
        outFile = outBefore

----------------------------------------------------------------------------
(* Further properties of simple_app *)

\* C27: the conversation simple_app.main starts has --max-rounds as its
\* round bound and --initial-message as its first message, with and
\* without --auto-mode.
C27_CommandLineValuesUsed ==
    op \in {"simple", "simple_auto"} =>
        /\ max_round = maxRoundsArg
        /\ firstMessage = initialMessageArg

----------------------------------------------------------------------------
(* Further properties of the web UI *)

\* The upload action has run to the end of the script.
UploadEnded == pc = "idle" /\ runKind = "upload"

\* The calls the upload action itself made, in order: those of
\* refresh_rag_after_upload and of the upload handler.
UploadCalls == SelectSeq(runCalls, LAMBDA c : c.site # "script")

UploadSteps == <<"parse_pdf", "init_query_engine", "setup_agents">>

\* The running script showed the text.
Shown(text) == \E i \in 1..Len(runStatus) : runStatus[i] = text

\* The running script's call of f returned.
Completed(f) == \E i \in 1..Len(runCalls) : runCalls[i].fn = f /\ runCalls[i].ok

\* C22: an upload action runs parse_pdf, init_query_engine, setup_agents in
\* this order, each exactly once, and runs no later step after a step that
\* failed.
C22_UploadStepsInOrderOnce ==
    UploadEnded =>
        /\ Len(UploadCalls) <= Len(UploadSteps)
        /\ \A i \in 1..Len(UploadCalls) :
              /\ i <= Len(UploadSteps) => UploadCalls[i].fn = UploadSteps[i]
              /\ i < Len(UploadCalls) => UploadCalls[i].ok
        /\ (\A i \in 1..Len(UploadCalls) : UploadCalls[i].ok) =>
              Len(UploadCalls) = Len(UploadSteps)

\* The texts st.error shows.
ErrorTexts ==
    {SetupFailed, "error: Failed to update knowledge base",
     "error: Error processing document", "error: Sorry, I encountered an error"}

\* C23: when a call raised during an upload, during agent setup or during
\* a chat input, the error is shown as an inline status or as the
\* assistant's chat message, and no exception leaves the script run.
C23_ErrorsShownNeverPropagate ==
    \A i \in 1..Len(runCalls) :
        ~runCalls[i].ok =>
            /\ ~runCrashed
            /\ IF runCalls[i].site = "chat"
               THEN /\ ui[actor].messages # <<>>
                    /\ ui[actor].messages[Len(ui[actor].messages)] = "assistant"
               ELSE \E t \in ErrorTexts : Shown(t)

\* C28: during an upload action "Document processed successfully!" is
\* shown only if parse_pdf and init_query_engine both returned in that
\* action.
C28_SuccessOnlyAfterBothSteps ==
    (runKind = "upload" /\ Shown("success: Document processed successfully!")) =>
        /\ Completed("parse_pdf")
        /\ Completed("init_query_engine")

\* C29: every completed chat input extends the session's history by one
\* user message followed by one assistant message, so the history
\* alternates user, assistant, user, assistant.
C29_HistoryAlternates ==
    \A s \in Sessions :
        LET m == ui[s].messages
        IN  /\ Len(m) % 2 = 0
            /\ \A i \in 1..Len(m) :
                  m[i] = IF i % 2 = 1 THEN "user" ELSE "assistant"

====
